---- MODULE Spec2Model ----
(***************************************************************************)
(* The Telegram webhook handler of truecallerjs_bot (src/index.ts): the    *)
(* per-chat session kept in Deno KV, the module-level tgChatId, and the    *)
(* handler of one webhook delivery cut at its awaits.                      *)
(*                                                                         *)
(* Strings of the program (message texts, phone numbers, installation ids, *)
(* country codes, provider messages) are sequences of one-character        *)
(* strings, so that startsWith, equality and length are computed.  The     *)
(* fixed reply texts of the program are kept as TLA+ strings inside a      *)
(* record [lit, arg]: lit is the literal (or template) and arg the         *)
(* interpolated program string.                                            *)
(***************************************************************************)
EXTENDS Integers, Sequences, FiniteSets, TLC

\* ------------------------------------------------------------------ bounds
MaxChats == 2
MaxInFlight == 2

Chats == 1..MaxChats
Slots == 1..MaxInFlight

\* tgChatId before the first message: undefined
NoChat == 0

\* ------------------------------------------------------------------ strings
CmdStart == <<"/", "s", "t", "a", "r", "t">>
CmdInfo == <<"/", "i", "n", "f", "o">>
CmdInstallationId ==
    <<"/", "i", "n", "s", "t", "a", "l", "l", "a", "t", "i", "o", "n", "_", "i", "d">>
CmdLogout == <<"/", "l", "o", "g", "o", "u", "t">>
CmdLogin == <<"/", "l", "o", "g", "i", "n">>
CmdStop == <<"/", "s", "t", "o", "p">>

Commands == {CmdStart, CmdInfo, CmdInstallationId, CmdLogout, CmdLogin}

\* message texts that are no command of the handler
FreeTexts == { <<"+", "1">>, <<"a", "b", "c">> }

\* the texts a delivery may carry (the empty text is falsy: no reply)
Texts == Commands \cup {CmdStop} \cup FreeTexts \cup { <<>> }

\* String.prototype.startsWith with a one-character argument
StartsWith(t, c) == Len(t) > 0 /\ t[1] = c

MsgSent == <<"S", "e", "n", "t">>
MsgOther == <<"E", "r", "r">>
CcIN == <<"I", "N">>
CcUS == <<"U", "S">>
Inst1 == <<"i", "1">>
Inst2 == <<"i", "2">>
NameJane == <<"J", "a", "n", "e">>

\* a reply text: a literal of the program, or a template around a program string
Lit(s) == [lit |-> s, arg |-> <<>>]
Tpl(s, a) == [lit |-> s, arg |-> a]

\* ------------------------------------------------------------------ KvValue
Null == [status |-> "null"]
LoggedOut == [status |-> "logged_out"]
AwaitingPhoneNo == [status |-> "awaiting_phone_no"]
AwaitingOtp(p, l) ==
    [status |-> "awaiting_otp", phoneNumber |-> p, loginResponse |-> l]
AwaitingInstallationId == [status |-> "awaiting_installation_id"]
AwaitingCountryCode(i) == [status |-> "awaiting_country_code", installationId |-> i]
LoggedIn(i, c) == [status |-> "logged_in", installationId |-> i, countryCode |-> c]

\* ------------------------------------------------------------------ provider
LR(s, m, c, k) == [status |-> s, message |-> m, parsedCountryCode |-> c, requestId |-> k]

\* what login(phoneNumber) may resolve to
LoginResponses ==
    { LR(1, MsgSent, CcIN, "r1"), LR(9, MsgOther, CcUS, "r2"), LR(2, MsgSent, CcIN, "r2"),
      LR(2, MsgOther, CcIN, "r1"), LR(5, MsgSent, CcIN, "r1"), LR(6, MsgOther, CcUS, "r2") }

OR(su, s, i, m) == [suspended |-> su, status |-> s, installationId |-> i, message |-> m]

\* what verifyOtp(phoneNumber, loginResponse, otp) may resolve to
\* (installationId and message <<>>: absent or empty, both falsy)
OtpResponses ==
    { OR(FALSE, 2, Inst1, <<>>), OR(FALSE, 2, Inst2, MsgOther),
      OR(TRUE, 11, Inst1, <<>>), OR(TRUE, 2, <<>>, <<>>),
      OR(FALSE, 11, Inst1, <<>>), OR(FALSE, 7, Inst2, <<>>), OR(FALSE, 7, <<>>, MsgOther),
      OR(FALSE, 2, <<>>, MsgOther), OR(FALSE, 2, <<>>, <<>>) }

\* an Error value: name, whether it has a response, response.data.status
\* (0: none), response.data.message, error.message
Err(n, h, s, dm, m) ==
    [name |-> n, hasResponse |-> h, status |-> s, dataMessage |-> dm, message |-> m]

NoError == Err("none", FALSE, 0, <<>>, <<>>)

\* what search(searchData) may resolve to: a result whose json() is data
\* with a name, or whose json() is the wrapped Axios error
SearchOk(n) == [isError |-> FALSE, name |-> n, error |-> NoError]
SearchErr(e) == [isError |-> TRUE, name |-> <<>>, error |-> e]

SearchResults ==
    { SearchOk(NameJane),
      SearchErr(Err("AxiosError", TRUE, 40101, MsgOther, MsgOther)),
      SearchErr(Err("AxiosError", TRUE, 42601, <<>>, MsgOther)),
      SearchErr(Err("AxiosError", TRUE, 429, MsgOther, MsgOther)),
      SearchErr(Err("AxiosError", TRUE, 400, <<>>, MsgOther)),
      SearchErr(Err("AxiosError", FALSE, 0, <<>>, MsgOther)) }

\* what login and verifyOtp may reject with
ProviderErrors ==
    { Err("AxiosError", TRUE, 400, MsgOther, MsgOther),
      Err("Error", FALSE, 0, <<>>, MsgOther) }

\* what a Deno KV operation may reject with
KvError == Err("Error", FALSE, 0, <<>>, <<"k", "v">>)

\* ------------------------------------------------------------------ requests
NoMessage == [present |-> FALSE, chat |-> NoChat, hasText |-> FALSE, text |-> <<>>]
Message(c, t) == [present |-> TRUE, chat |-> c, hasText |-> TRUE, text |-> t]
MessageNoText(c) == [present |-> TRUE, chat |-> c, hasText |-> FALSE, text |-> <<>>]
NoMember == [present |-> FALSE, chat |-> NoChat, status |-> "none"]
Member(c, st) == [present |-> TRUE, chat |-> c, status |-> st]

\* a webhook request: its method, whether its body parses as JSON, and the
\* message and my_chat_member of the Update
Request(m, ok, msg, mem) ==
    [method |-> m, parses |-> ok, message |-> msg, my_chat_member |-> mem]

Requests ==
    { Request("GET", TRUE, NoMessage, NoMember),
      Request("POST", FALSE, NoMessage, NoMember),
      Request("POST", TRUE, NoMessage, NoMember) }
    \cup { Request("POST", TRUE, Message(c, t), NoMember) : c \in Chats, t \in Texts }
    \cup { Request("POST", TRUE, MessageNoText(c), NoMember) : c \in Chats }
    \cup { Request("POST", TRUE, NoMessage, Member(c, st)) :
             c \in Chats, st \in {"kicked", "member"} }
    \cup { Request("POST", TRUE, Message(c, CmdLogin), Member(c, st)) :
             c \in Chats, st \in {"kicked", "member"} }

\* ------------------------------------------------------------------ responses
NoResponse == [kind |-> "none", status |-> 0, chat_id |-> NoChat,
               text |-> Lit(""), parse_mode |-> "undefined"]

\* new Response(): an empty 200
EmptyResponse == [NoResponse EXCEPT !.kind = "empty", !.status = 200]

\* new Response(null, { status: 404 })
NotFoundResponse == [NoResponse EXCEPT !.kind = "empty", !.status = 404]

\* ------------------------------------------------------------------ state
VARIABLES
    kv,        \* Deno KV: the value stored at ["users", chat], Null when none
    tgChatId,  \* the module-level tgChatId
    env,       \* Deno.env: which of the optional variables are set
    h          \* per in-flight request: the handler's position and locals

vars == <<kv, tgChatId, env, h>>

\* the optional environment variables read by reportEvent and reportError:
\* EVENT_PING_URL, EVENT_PING_PROJECT_ID, TG_REPORT_CHANNEL_ID
Env(url, project, channel) ==
    [EVENT_PING_URL |-> url, EVENT_PING_PROJECT_ID |-> project,
     TG_REPORT_CHANNEL_ID |-> channel]

Envs == { Env(u, p, c) : u \in BOOLEAN, p \in BOOLEAN, c \in BOOLEAN }

\* the deployment with every optional variable set
Configured == Env(TRUE, TRUE, TRUE)

\* a fetch of reportEvent ("event") or reportError ("report"), not awaited:
\* sent, then ok or failed
Fetch(sink) == [sink |-> sink, state |-> "sent"]

NoWrite == [op |-> "none", value |-> Null]
\* no answer of the provider yet
NoPresp == [kind |-> "none"]
NoCont == [event |-> "", kind |-> "none", text |-> Lit(""), formatted |-> FALSE]

\* a handler that has not run: its locals, and what it has done so far
\*   chat     message.chat.id (or my_chat_member.chat.id)
\*   key      the chat of chatIdKey
\*   kvValue  the session read by kv.get
\*   pending  the kv.set / kv.delete being awaited, cont what follows it
\*   calls    the provider calls issued, presp what the provider answered
\*   writes   the kv.set / kv.delete operations performed
\*   events   the reportEvent calls, reported the reportError calls
\*   fetches  the requests these calls have sent to their sinks
\*   resp     the Response returned, via who returned it
Idle ==
    [pc |-> "idle", chat |-> NoChat, text |-> <<>>, key |-> NoChat, kvValue |-> Null,
     pending |-> NoWrite, cont |-> NoCont, calls |-> <<>>, presp |-> NoPresp,
     writes |-> <<>>, events |-> <<>>, reported |-> <<>>, fetches |-> <<>>,
     error |-> NoError, resp |-> NoResponse, via |-> "none"]

\* a fresh deployment, configured, with an empty store
Init ==
    /\ kv = [c \in Chats |-> Null]
    /\ tgChatId = NoChat
    /\ env = Configured
    /\ h = [r \in Slots |-> Idle]

\* ------------------------------------------------------------------ helpers
\* sendTgMessage(text, formatted): chat_id is the tgChatId of the moment
sendTgMessage(text, formatted) ==
    [kind |-> "sendMessage", status |-> 200, chat_id |-> tgChatId, text |-> text,
     parse_mode |-> IF formatted THEN "MarkdownV2" ELSE "undefined"]

\* (mutant) reportEvent without its test of the environment
reportEventAlwaysFetches(s, eventName) ==
    [s EXCEPT !.events = Append(@, eventName), !.fetches = Append(@, Fetch("event"))]

\* reportEvent(eventName): the call is recorded; the fetch is sent only
\* when both EVENT_PING_* variables are set
reportEvent(s, eventName) ==
    [s EXCEPT !.events = Append(@, eventName),
              !.fetches = IF env.EVENT_PING_URL /\ env.EVENT_PING_PROJECT_ID
                          THEN Append(@, Fetch("event"))
                          ELSE @]

\* reportError(error): the call is recorded; the fetch is sent only when
\* TG_REPORT_CHANNEL_ID is set
reportError(s, error) ==
    [s EXCEPT !.reported = Append(@, error),
              !.fetches = IF env.TG_REPORT_CHANNEL_ID
                          THEN Append(@, Fetch("report"))
                          ELSE @]

\* return sendTgMessage(text, formatted) from the handler
Return(s, text, formatted) ==
    [s EXCEPT !.pc = "done", !.resp = sendTgMessage(text, formatted), !.via = "handler",
              !.pending = NoWrite, !.cont = NoCont]

\* return new Response() from the handler
ReturnEmpty(s, response) ==
    [s EXCEPT !.pc = "done", !.resp = response, !.via = "handler",
              !.pending = NoWrite, !.cont = NoCont]

\* await kv.set(chatIdKey, value), then reportEvent(event) if any, then the reply
AwaitSet(s, value, event, text, formatted) ==
    [s EXCEPT !.pc = "kv_write", !.pending = [op |-> "set", value |-> value],
              !.cont = [event |-> event, kind |-> "sendMessage", text |-> text,
                        formatted |-> formatted]]

\* await kv.delete(chatIdKey), then reportEvent(event), then the response
AwaitDelete(s, event, kind, text) ==
    [s EXCEPT !.pc = "kv_write", !.pending = [op |-> "delete", value |-> Null],
              !.cont = [event |-> event, kind |-> kind, text |-> text,
                        formatted |-> FALSE]]

\* await login / verifyOtp / search
AwaitCall(s, pc, call) == [s EXCEPT !.pc = pc, !.calls = Append(@, call)]

\* a rejected await: the error leaves the handler for onError
Throw(s, e) == [s EXCEPT !.pc = "thrown", !.error = e, !.pending = NoWrite, !.cont = NoCont]

\* ------------------------------------------------------------------ reply texts
\* (the literals of src/index.ts, without their Markdown and line breaks)
TextStart ==
    "You need to /login to Truecaller with your existing account to use the bot."
TextInfoLoggedIn ==
    "Status: Logged in, Installation ID: %s"
TextInfoLoggedOut ==
    "Status: Logged out"
TextAlreadyLoggedInId ==
    "You are already logged in. /logout first and then try again."
TextEnterInstallationId ==
    "Enter the installation ID:"
TextEnterCountryCode ==
    "Enter your phone number 2-letter ISO country code:"
TextLoggedIn ==
    "Successfully logged in to Truecaller. You can now search any number."
TextLoggedOut == "You've been logged out"
TextAlreadyLoggedIn == "You are already logged in. /logout first and then try /login again."
TextEnterPhoneNo == "Enter your Truecaller account phone no. in international (+19...) format:"
TextPhoneFormat == "Phone number should be in international format like +91..."
TextRateLimit ==
    "You have exceeded the limit of verification attempts."
TextEnterOtp == "Enter the OTP from SMS or WhatsApp:"
TextSuspended ==
    "Your account has been suspended by Truecaller."
TextInvalidOtp == "Invalid OTP"
TextRetriesLimit == "Retries limit exceeded"
TextUnknownError == "Unknown error. Try again."
TextLoginFirst == "Please /login first before searching for a number"
TextAccountError ==
    "Truecaller responded with an account error: %s. Try to /login here again after checking."
TextTryValidNumber == "Try again with a valid number."
TextInternalError ==
    "Internal server error! Reason: %s. It has been reported and will be fixed if possible."
\* a reply that is a program string and nothing else
TextVerbatim == "%s"
\* the reply of the variant of the handler that checks the length of the
\* country code (src/unnamed/part_000); src/index.ts never sends it
TextInvalidCountryCode ==
    "Invalid country code. It should be a 2-letter ISO code like IN for India, US for the USA, etc."

\* ------------------------------------------------------------------ the handler
\* (mutant) /start that greets only where the event sink is configured
OnStartWhenConfigured(s) ==
    IF env.EVENT_PING_URL
    THEN Return(IF s.kvValue.status = "logged_out" THEN reportEvent(s, "/start") ELSE s,
                Lit(TextStart), FALSE)
    ELSE Return(s, Lit(TextLoginFirst), FALSE)

\* /start
OnStart(s) ==
    Return(IF s.kvValue.status = "logged_out" THEN reportEvent(s, "/start") ELSE s,
           Lit(TextStart), FALSE)

\* (mutant) /info that shows the installation id as soon as the session holds one
OnInfoShowsCapturedId(s) ==
    IF s.kvValue.status \in {"logged_in", "awaiting_country_code"}
    THEN Return(s, Tpl(TextInfoLoggedIn, s.kvValue.installationId), TRUE)
    ELSE Return(s, Lit(TextInfoLoggedOut), TRUE)

\* /info: the installation id is shown when logged in and the id is truthy
OnInfo(s) ==
    IF s.kvValue.status = "logged_in"
    THEN IF s.kvValue.installationId # <<>>
         THEN Return(s, Tpl(TextInfoLoggedIn, s.kvValue.installationId), TRUE)
         ELSE Return(s, Tpl(TextInfoLoggedIn, <<>>), TRUE)
    ELSE Return(s, Lit(TextInfoLoggedOut), TRUE)

\* (mutant) /installation_id without its test of logged_in
OnInstallationIdCommandAlways(s) ==
    AwaitSet(s, AwaitingInstallationId, "", Lit(TextEnterInstallationId), TRUE)

\* (mutant) /installation_id that keeps a login flow in progress
OnInstallationIdCommandKeepsFlow(s) ==
    IF s.kvValue.status \in {"logged_in", "awaiting_otp"}
    THEN Return(s, Lit(TextAlreadyLoggedInId), FALSE)
    ELSE AwaitSet(s, AwaitingInstallationId, "", Lit(TextEnterInstallationId), TRUE)

\* /installation_id
OnInstallationIdCommand(s) ==
    IF s.kvValue.status = "logged_in"
    THEN Return(s, Lit(TextAlreadyLoggedInId), FALSE)
    ELSE AwaitSet(s, AwaitingInstallationId, "", Lit(TextEnterInstallationId), TRUE)

\* (mutant) the installation-id branch without its startsWith("/") guard
IsInstallationIdInputAnyText(s) == s.kvValue.status = "awaiting_installation_id"

IsInstallationIdInput(s) ==
    s.kvValue.status = "awaiting_installation_id" /\ ~StartsWith(s.text, "/")

\* the text is the installation id
OnInstallationId(s) ==
    AwaitSet(s, AwaitingCountryCode(s.text), "/installation_id",
             Lit(TextEnterCountryCode), TRUE)

IsCountryCodeInput(s) ==
    s.kvValue.status = "awaiting_country_code" /\ ~StartsWith(s.text, "/")

\* (mutant) the stored fields exchanged
OnCountryCodeSwapped(s) ==
    AwaitSet(s, LoggedIn(s.text, s.kvValue.installationId), "", Lit(TextLoggedIn), FALSE)

\* the text is the country code
OnCountryCode(s) ==
    AwaitSet(s, LoggedIn(s.kvValue.installationId, s.text), "", Lit(TextLoggedIn), FALSE)

\* (mutant) /logout that deletes the session of a logged-in chat only
OnLogoutWhenLoggedIn(s) ==
    IF s.kvValue.status = "logged_in"
    THEN AwaitDelete(s, "/logout", "sendMessage", Lit(TextLoggedOut))
    ELSE Return(reportEvent(s, "/logout"), Lit(TextLoggedOut), FALSE)

\* /logout
OnLogout(s) == AwaitDelete(s, "/logout", "sendMessage", Lit(TextLoggedOut))

\* (mutant) /login that does not look at the session
OnLoginCommandAlways(s) == AwaitSet(s, AwaitingPhoneNo, "", Lit(TextEnterPhoneNo), FALSE)

\* /login
OnLoginCommand(s) ==
    IF s.kvValue.status = "logged_in"
    THEN Return(s, Lit(TextAlreadyLoggedIn), FALSE)
    ELSE AwaitSet(s, AwaitingPhoneNo, "", Lit(TextEnterPhoneNo), FALSE)

\* (mutant) the phone-number branch without its test of the status
IsPhoneNoInputAnyStatus(s) == ~StartsWith(s.text, "/")

IsPhoneNoInput(s) ==
    s.kvValue.status = "awaiting_phone_no" /\ ~StartsWith(s.text, "/")

\* (mutant) the phone number is handed to login without the + check
OnPhoneNoUnchecked(s) == AwaitCall(s, "login", [op |-> "login", phoneNumber |-> s.text])

\* the text is the phone number: login(phoneNumber) when it starts with +
OnPhoneNo(s) ==
    IF ~StartsWith(s.text, "+")
    THEN Return(s, Lit(TextPhoneFormat), FALSE)
    ELSE AwaitCall(s, "login", [op |-> "login", phoneNumber |-> s.text])

\* whether the login response lets the flow go on to the OTP
LoginAccepted(responseBody) ==
    responseBody.status = 1 \/ responseBody.status = 9 \/ responseBody.message = MsgSent

\* (mutant) a rate-limit check that knows status 6 only
LoginRateLimitedSixOnly(responseBody) == responseBody.status = 6

LoginRateLimited(responseBody) == responseBody.status = 6 \/ responseBody.status = 5

\* (mutant) the phone number is stored without its leading +
AfterLoginStripsPlus(s, responseBody) ==
    LET t == [s EXCEPT !.presp = responseBody] IN
    IF LoginRateLimited(responseBody)
    THEN Return(t, Lit(TextRateLimit), FALSE)
    ELSE IF ~LoginAccepted(responseBody)
    THEN Return(t, Tpl(TextVerbatim, responseBody.message), FALSE)
    ELSE AwaitSet(t, AwaitingOtp(Tail(s.text), responseBody), "", Lit(TextEnterOtp), FALSE)

\* after await login(phoneNumber)
AfterLogin(s, responseBody) ==
    LET t == [s EXCEPT !.presp = responseBody] IN
    IF LoginRateLimited(responseBody)
    THEN Return(t, Lit(TextRateLimit), FALSE)
    ELSE IF ~LoginAccepted(responseBody)
    THEN Return(t, Tpl(TextVerbatim, responseBody.message), FALSE)
    ELSE AwaitSet(t, AwaitingOtp(s.text, responseBody), "", Lit(TextEnterOtp), FALSE)

\* (mutant) the OTP branch without its startsWith("/") guard
IsOtpInputAnyText(s) == s.kvValue.status = "awaiting_otp"

IsOtpInput(s) == s.kvValue.status = "awaiting_otp" /\ ~StartsWith(s.text, "/")

\* the text is the OTP: verifyOtp(kvValue.phoneNumber, kvValue.loginResponse, otp)
OnOtp(s) ==
    AwaitCall(s, "verify",
              [op |-> "verifyOtp", phoneNumber |-> s.kvValue.phoneNumber,
               loginResponse |-> s.kvValue.loginResponse, otp |-> s.text])

\* (mutant) the verification result is stored without looking at its
\* installation id
AfterVerifyNoIdCheck(s, otpResponse) ==
    LET t == [s EXCEPT !.presp = otpResponse] IN
    IF otpResponse.suspended
    THEN Return(t, Lit(TextSuspended), FALSE)
    ELSE IF otpResponse.status = 11
    THEN Return(t, Lit(TextInvalidOtp), FALSE)
    ELSE IF otpResponse.status = 7
    THEN Return(t, Lit(TextRetriesLimit), FALSE)
    ELSE AwaitSet(t, LoggedIn(otpResponse.installationId,
                              s.kvValue.loginResponse.parsedCountryCode),
                  "/login", Lit(TextLoggedIn), FALSE)

\* (mutant) the country code is taken from the verification response
\* instead of the stored login response
AfterVerifyOwnCountryCode(s, otpResponse) ==
    LET t == [s EXCEPT !.presp = otpResponse] IN
    IF otpResponse.suspended
    THEN Return(t, Lit(TextSuspended), FALSE)
    ELSE IF otpResponse.status = 11
    THEN Return(t, Lit(TextInvalidOtp), FALSE)
    ELSE IF otpResponse.status = 7
    THEN Return(t, Lit(TextRetriesLimit), FALSE)
    ELSE IF otpResponse.installationId = <<>>
    THEN IF otpResponse.message # <<>>
         THEN Return(t, Tpl(TextVerbatim, otpResponse.message), FALSE)
         ELSE Return(t, Lit(TextUnknownError), FALSE)
    ELSE AwaitSet(t, LoggedIn(otpResponse.installationId, otpResponse.message),
                  "/login", Lit(TextLoggedIn), FALSE)

\* (mutant) the installation id is looked at before the status
AfterVerifyIdFirst(s, otpResponse) ==
    LET t == [s EXCEPT !.presp = otpResponse] IN
    IF otpResponse.suspended
    THEN Return(t, Lit(TextSuspended), FALSE)
    ELSE IF otpResponse.installationId # <<>>
    THEN AwaitSet(t, LoggedIn(otpResponse.installationId,
                              s.kvValue.loginResponse.parsedCountryCode),
                  "/login", Lit(TextLoggedIn), FALSE)
    ELSE IF otpResponse.status = 11
    THEN Return(t, Lit(TextInvalidOtp), FALSE)
    ELSE IF otpResponse.status = 7
    THEN Return(t, Lit(TextRetriesLimit), FALSE)
    ELSE IF otpResponse.message # <<>>
    THEN Return(t, Tpl(TextVerbatim, otpResponse.message), FALSE)
    ELSE Return(t, Lit(TextUnknownError), FALSE)

\* after await verifyOtp(...)
AfterVerify(s, otpResponse) ==
    LET t == [s EXCEPT !.presp = otpResponse] IN
    IF otpResponse.suspended
    THEN Return(t, Lit(TextSuspended), FALSE)
    ELSE IF otpResponse.status = 11
    THEN Return(t, Lit(TextInvalidOtp), FALSE)
    ELSE IF otpResponse.status = 7
    THEN Return(t, Lit(TextRetriesLimit), FALSE)
    ELSE IF otpResponse.installationId = <<>>
    THEN IF otpResponse.message # <<>>
         THEN Return(t, Tpl(TextVerbatim, otpResponse.message), FALSE)
         ELSE Return(t, Lit(TextUnknownError), FALSE)
    ELSE AwaitSet(t, LoggedIn(otpResponse.installationId,
                              s.kvValue.loginResponse.parsedCountryCode),
                  "/login", Lit(TextLoggedIn), FALSE)

\* (mutant) a search whose countryCode and installationId are swapped
OnSearchSwapped(s) ==
    IF s.kvValue.status # "logged_in"
    THEN Return(s, Lit(TextLoginFirst), FALSE)
    ELSE AwaitCall(s, "search",
                   [op |-> "search", number |-> s.text,
                    countryCode |-> s.kvValue.installationId,
                    installationId |-> s.kvValue.countryCode])

\* anything else: the text is a number to search when logged in
OnSearch(s) ==
    IF s.kvValue.status # "logged_in"
    THEN Return(s, Lit(TextLoginFirst), FALSE)
    ELSE AwaitCall(s, "search",
                   [op |-> "search", number |-> s.text,
                    countryCode |-> s.kvValue.countryCode,
                    installationId |-> s.kvValue.installationId])

\* (mutant) only status 40101 is answered as an account error
AfterSearchOnly40101(s, searchResult) ==
    LET t == [s EXCEPT !.presp = searchResult] IN
    IF searchResult.isError
    THEN IF searchResult.error.hasResponse /\ searchResult.error.status = 40101
         THEN Return(t, Tpl(TextAccountError, searchResult.error.dataMessage), TRUE)
         ELSE Throw(t, searchResult.error)
    ELSE Return(reportEvent(t, "/search"), Tpl(TextVerbatim, searchResult.name), FALSE)

\* (mutant) a failed search is tried once more
AfterSearchRetries(s, searchResult) ==
    LET t == [s EXCEPT !.presp = searchResult] IN
    IF searchResult.isError
    THEN IF searchResult.error.hasResponse
            /\ searchResult.error.status \in {40101, 42601}
         THEN Return(t, Tpl(TextAccountError, searchResult.error.dataMessage), TRUE)
         ELSE IF Len(s.calls) < 2
              THEN AwaitCall(s, "search", s.calls[1])
              ELSE Throw(t, searchResult.error)
    ELSE Return(reportEvent(t, "/search"), Tpl(TextVerbatim, searchResult.name), FALSE)

\* after await search(searchData)
AfterSearch(s, searchResult) ==
    LET t == [s EXCEPT !.presp = searchResult] IN
    IF searchResult.isError
    THEN IF searchResult.error.hasResponse
            /\ searchResult.error.status \in {40101, 42601}
         THEN Return(t, Tpl(TextAccountError, searchResult.error.dataMessage), TRUE)
         ELSE Throw(t, searchResult.error)
    ELSE Return(reportEvent(t, "/search"), Tpl(TextVerbatim, searchResult.name), FALSE)

\* the handler from the session read to its first await or return
Handle(s) ==
    IF s.text = CmdStart THEN OnStart(s)
    ELSE IF s.text = CmdInfo THEN OnInfo(s)
    ELSE IF s.text = CmdInstallationId THEN OnInstallationIdCommand(s)
    ELSE IF IsInstallationIdInput(s) THEN OnInstallationId(s)
    ELSE IF IsCountryCodeInput(s) THEN OnCountryCode(s)
    ELSE IF s.text = CmdLogout THEN OnLogout(s)
    ELSE IF s.text = CmdLogin THEN OnLoginCommand(s)
    ELSE IF IsPhoneNoInput(s) THEN OnPhoneNo(s)
    ELSE IF IsOtpInput(s) THEN OnOtp(s)
    ELSE OnSearch(s)

\* after await kv.set / kv.delete: the event, then the response
AfterKv(s) ==
    LET t == IF s.cont.event = "" THEN s ELSE reportEvent(s, s.cont.event) IN
    IF s.cont.kind = "sendMessage"
    THEN Return(t, s.cont.text, s.cont.formatted)
    ELSE ReturnEmpty(t, EmptyResponse)

\* (mutant) onError that answers every error with the generic message
onErrorAlwaysGeneric(s) ==
    [reportError(s, s.error) EXCEPT
         !.pc = "done",
         !.resp = sendTgMessage(Tpl(TextInternalError, s.error.message), FALSE),
         !.via = "onError"]

\* onError(error): the message, reportError(error), the reply
onError(s) ==
    LET message ==
            IF s.error.name = "AxiosError" /\ s.error.hasResponse
            THEN IF s.error.dataMessage # <<>>
                 THEN Tpl(TextVerbatim, s.error.dataMessage)
                 ELSE Lit(TextTryValidNumber)
            ELSE Tpl(TextInternalError, s.error.message)
    IN [reportError(s, s.error) EXCEPT
           !.pc = "done", !.resp = sendTgMessage(message, FALSE), !.via = "onError"]

\* ------------------------------------------------------------------ actions
\* (mutant) request.json() without its catch: an unparsable body is thrown
ReceiveUnparsableThrows(r, q) ==
    /\ h[r].pc = "idle"
    /\ LET message == q.message
           my_chat_member == q.my_chat_member
       IN IF q.method # "POST"
          THEN /\ h' = [h EXCEPT ![r] = ReturnEmpty(Idle, NotFoundResponse)]
               /\ UNCHANGED <<kv, tgChatId, env>>
          ELSE IF ~q.parses
          THEN /\ h' = [h EXCEPT ![r] = Throw(Idle, KvError)]
               /\ UNCHANGED <<kv, tgChatId, env>>
          ELSE IF my_chat_member.present /\ my_chat_member.status = "kicked"
          THEN /\ h' = [h EXCEPT ![r] =
                          AwaitDelete([Idle EXCEPT !.chat = my_chat_member.chat,
                                                   !.key = my_chat_member.chat],
                                      "/stop", "empty", Lit(""))]
               /\ UNCHANGED <<kv, tgChatId, env>>
          ELSE IF ~(message.present /\ message.hasText /\ message.text # <<>>)
          THEN /\ h' = [h EXCEPT ![r] = ReturnEmpty(Idle, EmptyResponse)]
               /\ UNCHANGED <<kv, tgChatId, env>>
          ELSE /\ tgChatId' = message.chat
               /\ h' = [h EXCEPT ![r] = [Idle EXCEPT !.pc = "open_kv",
                                                     !.chat = message.chat,
                                                     !.text = message.text]]
               /\ UNCHANGED <<kv, env>>

\* (mutant) the message of an update is handled before its my_chat_member
ReceiveMessageFirst(r, q) ==
    /\ h[r].pc = "idle"
    /\ LET message == IF q.parses THEN q.message ELSE NoMessage
           my_chat_member == IF q.parses THEN q.my_chat_member ELSE NoMember
       IN IF q.method # "POST"
          THEN /\ h' = [h EXCEPT ![r] = ReturnEmpty(Idle, NotFoundResponse)]
               /\ UNCHANGED <<kv, tgChatId, env>>
          ELSE IF message.present /\ message.hasText /\ message.text # <<>>
          THEN /\ tgChatId' = message.chat
               /\ h' = [h EXCEPT ![r] = [Idle EXCEPT !.pc = "open_kv",
                                                     !.chat = message.chat,
                                                     !.text = message.text]]
               /\ UNCHANGED <<kv, env>>
          ELSE IF my_chat_member.present /\ my_chat_member.status = "kicked"
          THEN /\ h' = [h EXCEPT ![r] =
                          AwaitDelete([Idle EXCEPT !.chat = my_chat_member.chat,
                                                   !.key = my_chat_member.chat],
                                      "/stop", "empty", Lit(""))]
               /\ UNCHANGED <<kv, tgChatId, env>>
          ELSE /\ h' = [h EXCEPT ![r] = ReturnEmpty(Idle, EmptyResponse)]
               /\ UNCHANGED <<kv, tgChatId, env>>

\* a request arrives at slot r: the method, the body, the kicked update, the
\* message without text; a message with text sets tgChatId (the typing
\* indicator is a fetch that is not awaited and changes nothing here)
Receive(r, q) ==
    /\ h[r].pc = "idle"
    /\ LET message == IF q.parses THEN q.message ELSE NoMessage
           my_chat_member == IF q.parses THEN q.my_chat_member ELSE NoMember
       IN IF q.method # "POST"
          THEN /\ h' = [h EXCEPT ![r] = ReturnEmpty(Idle, NotFoundResponse)]
               /\ UNCHANGED <<kv, tgChatId, env>>
          ELSE IF my_chat_member.present /\ my_chat_member.status = "kicked"
          THEN /\ h' = [h EXCEPT ![r] =
                          AwaitDelete([Idle EXCEPT !.chat = my_chat_member.chat,
                                                   !.key = my_chat_member.chat],
                                      "/stop", "empty", Lit(""))]
               /\ UNCHANGED <<kv, tgChatId, env>>
          ELSE IF ~(message.present /\ message.hasText /\ message.text # <<>>)
          THEN /\ h' = [h EXCEPT ![r] = ReturnEmpty(Idle, EmptyResponse)]
               /\ UNCHANGED <<kv, tgChatId, env>>
          ELSE /\ tgChatId' = message.chat
               /\ h' = [h EXCEPT ![r] = [Idle EXCEPT !.pc = "open_kv",
                                                     !.chat = message.chat,
                                                     !.text = message.text]]
               /\ UNCHANGED <<kv, env>>

\* await Deno.openKv() resumes: chatIdKey is built from tgChatId
OpenKv(r) ==
    /\ h[r].pc = "open_kv"
    /\ h' = [h EXCEPT ![r] = [@ EXCEPT !.pc = "kv_get", !.key = tgChatId]]
    /\ UNCHANGED <<kv, tgChatId, env>>

\* (mutant) the value read is used as it is, without the default
ReadSessionNoDefault(stored) == stored

\* the value kv.get resolves to: a missing value reads as logged_out
ReadSession(stored) == IF stored = Null THEN LoggedOut ELSE stored

\* kv.get(chatIdKey) reads the store
KvGet(r) ==
    /\ h[r].pc = "kv_get"
    /\ h' = [h EXCEPT ![r] = [@ EXCEPT !.pc = "dispatch",
                                       !.kvValue = ReadSession(kv[h[r].key])]]
    /\ UNCHANGED <<kv, tgChatId, env>>

\* kv.get(chatIdKey) rejects
KvGetFault(r) ==
    /\ h[r].pc = "kv_get"
    /\ h' = [h EXCEPT ![r] = Throw(@, KvError)]
    /\ UNCHANGED <<kv, tgChatId, env>>

\* await kv.get resumes: the handler runs to its first await or return
Dispatch(r) ==
    /\ h[r].pc = "dispatch"
    /\ h' = [h EXCEPT ![r] = Handle(@)]
    /\ UNCHANGED <<kv, tgChatId, env>>

\* await login(phoneNumber) resumes with the provider's response
LoginReturn(r, responseBody) ==
    /\ h[r].pc = "login"
    /\ h' = [h EXCEPT ![r] = AfterLogin(@, responseBody)]
    /\ UNCHANGED <<kv, tgChatId, env>>

\* await verifyOtp(...) resumes with the provider's response
VerifyReturn(r, otpResponse) ==
    /\ h[r].pc = "verify"
    /\ h' = [h EXCEPT ![r] = AfterVerify(@, otpResponse)]
    /\ UNCHANGED <<kv, tgChatId, env>>

\* await search(searchData) resumes with the result
SearchReturn(r, searchResult) ==
    /\ h[r].pc = "search"
    /\ h' = [h EXCEPT ![r] = AfterSearch(@, searchResult)]
    /\ UNCHANGED <<kv, tgChatId, env>>

\* login or verifyOtp rejects
ProviderThrow(r, e) ==
    /\ h[r].pc \in {"login", "verify"}
    /\ h' = [h EXCEPT ![r] = Throw(@, e)]
    /\ UNCHANGED <<kv, tgChatId, env>>

\* the store after kv.set(key, value) or kv.delete(key)
Stored(store, key, write) ==
    [store EXCEPT ![key] = IF write.op = "set" THEN write.value ELSE Null]

\* (mutant) a checked write: it is performed only if the key still holds
\* what the handler read
KvWriteChecked(r) ==
    /\ h[r].pc = "kv_write"
    /\ kv' = IF ReadSession(kv[h[r].key]) = h[r].kvValue \/ h[r].text = <<>>
             THEN Stored(kv, h[r].key, h[r].pending)
             ELSE kv
    /\ h' = [h EXCEPT ![r] = [@ EXCEPT !.pc = "kv_done",
                                       !.writes = Append(@, h[r].pending)]]
    /\ UNCHANGED <<tgChatId, env>>

\* kv.set / kv.delete is performed on the store
KvWrite(r) ==
    /\ h[r].pc = "kv_write"
    /\ kv' = Stored(kv, h[r].key, h[r].pending)
    /\ h' = [h EXCEPT ![r] = [@ EXCEPT !.pc = "kv_done",
                                       !.writes = Append(@, h[r].pending)]]
    /\ UNCHANGED <<tgChatId, env>>

\* (mutant) a rejected kv.set / kv.delete that is caught and logged: the
\* handler goes on to its reply
KvWriteFaultSwallowed(r) ==
    /\ h[r].pc = "kv_write"
    /\ h' = [h EXCEPT ![r] = [@ EXCEPT !.pc = "kv_done"]]
    /\ UNCHANGED <<kv, tgChatId, env>>

\* kv.set / kv.delete rejects
KvWriteFault(r) ==
    /\ h[r].pc = "kv_write"
    /\ h' = [h EXCEPT ![r] = Throw(@, KvError)]
    /\ UNCHANGED <<kv, tgChatId, env>>

\* await kv.set / kv.delete resumes: the event and the response
KvResume(r) ==
    /\ h[r].pc = "kv_done"
    /\ h' = [h EXCEPT ![r] = AfterKv(@)]
    /\ UNCHANGED <<kv, tgChatId, env>>

\* the rejected handler reaches onError
OnError(r) ==
    /\ h[r].pc = "thrown"
    /\ h' = [h EXCEPT ![r] = onError(@)]
    /\ UNCHANGED <<kv, tgChatId, env>>

\* the Response has gone out: the slot is free for the next delivery
Finish(r) ==
    /\ h[r].pc = "done"
    /\ h' = [h EXCEPT ![r] = Idle]
    /\ UNCHANGED <<kv, tgChatId, env>>

\* what a fetch of the telemetry rejects with
FetchError == Err("TypeError", FALSE, 0, <<>>, <<"f">>)

\* the index of the first fetch that is still sent
FirstSent(fetches) ==
    CHOOSE j \in 1..Len(fetches) :
        /\ fetches[j].state = "sent"
        /\ \A k \in 1..(j - 1) : fetches[k].state # "sent"

\* a fetch of the telemetry settles, some time after it was sent: a
\* rejected fetch of reportEvent goes to .catch(reportError), a rejected
\* fetch of reportError to .catch(console.error)
TelemetrySettles(r, ok) ==
    /\ h[r].pc = "done"
    /\ \E j \in 1..Len(h[r].fetches) : h[r].fetches[j].state = "sent"
    /\ LET i == FirstSent(h[r].fetches)
           s == [h[r] EXCEPT !.fetches[i].state = IF ok THEN "ok" ELSE "failed"]
       IN h' = [h EXCEPT ![r] = IF ~ok /\ h[r].fetches[i].sink = "event"
                                 THEN reportError(s, FetchError)
                                 ELSE s]
    /\ UNCHANGED <<kv, tgChatId, env>>

\* ------------------------------------------------------------------ specifications
\* Sequential handling: one delivery is handled to completion before the
\* next is read (slot 1 alone is used).
Next ==
    \/ \E q \in Requests : Receive(1, q)
    \/ OpenKv(1)
    \/ KvGet(1)
    \/ KvGetFault(1)
    \/ Dispatch(1)
    \/ \E responseBody \in LoginResponses : LoginReturn(1, responseBody)
    \/ \E otpResponse \in OtpResponses : VerifyReturn(1, otpResponse)
    \/ \E searchResult \in SearchResults : SearchReturn(1, searchResult)
    \/ \E e \in ProviderErrors : ProviderThrow(1, e)
    \/ KvWrite(1)
    \/ KvWriteFault(1)
    \/ KvResume(1)
    \/ OnError(1)
    \/ \E ok \in BOOLEAN : TelemetrySettles(1, ok)
    \/ Finish(1)

Spec == Init /\ [][Next]_vars

\* Concurrent handling: the handlers of up to MaxInFlight deliveries
\* interleave at their awaits.  The deliveries are the messages of the
\* login flow, a logout and a search, with one answer of the provider per
\* outcome, and no rejected await other than a failed search.
ConcRequests ==
    { Request("POST", TRUE, Message(c, t), NoMember) :
        c \in Chats, t \in {CmdLogin, CmdLogout, <<"+", "1">>, <<"a", "b", "c">>} }

ConcLoginResponses == { LR(1, MsgSent, CcIN, "r1") }

ConcOtpResponses == { OR(FALSE, 2, Inst1, <<>>), OR(FALSE, 11, <<>>, <<>>) }

ConcSearchResults ==
    { SearchOk(NameJane), SearchErr(Err("AxiosError", TRUE, 429, MsgOther, MsgOther)) }

ConcNext ==
    \E r \in Slots :
        \/ \E q \in ConcRequests : Receive(r, q)
        \/ OpenKv(r)
        \/ KvGet(r)
        \/ Dispatch(r)
        \/ \E responseBody \in ConcLoginResponses : LoginReturn(r, responseBody)
        \/ \E otpResponse \in ConcOtpResponses : VerifyReturn(r, otpResponse)
        \/ \E searchResult \in ConcSearchResults : SearchReturn(r, searchResult)
        \/ KvWrite(r)
        \/ KvResume(r)
        \/ OnError(r)
        \/ Finish(r)

ConcSpec == Init /\ [][ConcNext]_vars

\* Two deliveries side by side: the chats 1 and 2 hold the same stored
\* session, chat 1 sends a text and its delivery is handled to the end, then
\* chat 2 sends the same text; the provider answers each as it likes, the
\* deployment may be replaced by one with another environment in between,
\* and the fetches of the telemetry settle when and how they like.
StoredSessions ==
    { Null, AwaitingPhoneNo, AwaitingInstallationId,
      AwaitingOtp(<<"+", "1">>, LR(1, MsgSent, CcIN, "r1")),
      AwaitingOtp(<<"+", "1">>, LR(9, MsgOther, CcUS, "r2")),
      AwaitingCountryCode(<<"a", "b", "c">>),
      LoggedIn(Inst1, CcIN),
      LoggedIn(<<"a", "b", "c">>, <<"+", "1">>) }

TwinInit ==
    /\ \E stored \in StoredSessions : kv = [c \in Chats |-> stored]
    /\ tgChatId = NoChat
    /\ env \in Envs
    /\ h = [r \in Slots |-> Idle]

TwinRequests(c) ==
    { Request("POST", TRUE, Message(c, t), NoMember) : t \in Texts \ { <<>> } }

\* the deployment is replaced: another environment, and the module state
\* starts anew
Redeploy ==
    /\ h[1].pc = "done" /\ h[2].pc = "idle"
    /\ env' \in Envs \ {env}
    /\ tgChatId' = NoChat
    /\ UNCHANGED <<kv, h>>

TwinNext ==
    \/ \E q \in TwinRequests(1) : Receive(1, q)
    \/ \E q \in TwinRequests(2) :
           /\ h[1].pc = "done" /\ q.message.text = h[1].text
           /\ Receive(2, q)
    \/ Redeploy
    \/ \E r \in {1, 2} :
           \/ OpenKv(r)
           \/ KvGet(r)
           \/ KvGetFault(r)
           \/ Dispatch(r)
           \/ \E responseBody \in LoginResponses : LoginReturn(r, responseBody)
           \/ \E otpResponse \in OtpResponses : VerifyReturn(r, otpResponse)
           \/ \E searchResult \in SearchResults : SearchReturn(r, searchResult)
           \/ \E e \in ProviderErrors : ProviderThrow(r, e)
           \/ KvWrite(r)
           \/ KvWriteFault(r)
           \/ KvResume(r)
           \/ OnError(r)
           \/ \E ok \in BOOLEAN : TelemetrySettles(r, ok)

TwinSpec == TwinInit /\ [][TwinNext]_vars

\* ------------------------------------------------------------------ claims
\* The claims C1..C10 are about one delivery handled to completion: they
\* are stated on the handler's record when it has returned.

\* the handler of slot r has returned a Response for a message with text
Returned(r) == h[r].pc = "done" /\ h[r].via = "handler" /\ h[r].text # <<>>

\* the states of a multi-step flow
FlowStatuses ==
    {"awaiting_phone_no", "awaiting_otp", "awaiting_installation_id", "awaiting_country_code"}

\* C1: a handler that returns from the message /logout leaves no stored
\* session for the chat, whatever the session it read, and replies with the
\* logout confirmation.
C1_LogoutLeavesNoSession ==
    \A r \in Slots :
        (Returned(r) /\ h[r].text = CmdLogout) =>
            /\ kv[h[r].chat] = Null
            /\ h[r].writes = << [op |-> "delete", value |-> Null] >>
            /\ h[r].resp.kind = "sendMessage"
            /\ h[r].resp.text = Lit(TextLoggedOut)

\* C1 witness: /logout has returned for a chat whose session was awaiting_otp
C1_Witness ==
    /\ Returned(1) /\ h[1].text = CmdLogout
    /\ h[1].kvValue.status = "awaiting_otp"
    /\ kv[h[1].chat] = Null

\* C2: search is called only by a handler whose session, read for the chat
\* of its message, is logged_in; it is then the handler's only provider
\* call, with number the message text and the installationId and
\* countryCode of that session; and a handler that read logged_in and got a
\* text that is no command has issued exactly that call.
C2_SearchOnlyWhenLoggedIn ==
    \A r \in Slots :
        /\ \A i \in 1..Len(h[r].calls) :
               h[r].calls[i].op = "search" =>
                   /\ h[r].kvValue.status = "logged_in"
                   /\ h[r].key = h[r].chat
                   /\ Len(h[r].calls) = 1
                   /\ h[r].calls[i].number = h[r].text
                   /\ h[r].calls[i].installationId = h[r].kvValue.installationId
                   /\ h[r].calls[i].countryCode = h[r].kvValue.countryCode
        /\ (h[r].pc \in {"search", "thrown", "done"}
              /\ h[r].kvValue.status = "logged_in" /\ h[r].text \notin Commands) =>
               /\ Len(h[r].calls) = 1
               /\ h[r].calls[1].op = "search"

\* C2 witness: a search returned a name for a session made by the
\* installation-id flow
C2_Witness ==
    /\ Returned(1)
    /\ h[1].calls # <<>> /\ h[1].calls[1].op = "search"
    /\ h[1].kvValue.installationId = <<"a", "b", "c">>
    /\ h[1].kvValue.countryCode = <<"+", "1">>
    /\ h[1].resp.text = Tpl(TextVerbatim, NameJane)

\* C3: when the session read is not logged_in and the text is neither a
\* command of the handler nor the input of the flow in progress, the reply
\* is "Please /login first ...", no provider call is made and the stored
\* session is the one read.
C3_LoginFirst ==
    \A r \in Slots :
        (/\ Returned(r)
         /\ h[r].kvValue.status # "logged_in"
         /\ h[r].text \notin Commands
         /\ ~(h[r].kvValue.status \in FlowStatuses /\ ~StartsWith(h[r].text, "/"))) =>
            /\ h[r].resp.text = Lit(TextLoginFirst)
            /\ h[r].resp.kind = "sendMessage"
            /\ h[r].calls = <<>>
            /\ h[r].writes = <<>>
            /\ ReadSession(kv[h[r].chat]) = h[r].kvValue

\* C3 witness: /stop during the OTP step is answered "Please /login first"
C3_Witness ==
    /\ Returned(1) /\ h[1].text = CmdStop
    /\ h[1].kvValue.status = "awaiting_otp"
    /\ h[1].resp.text = Lit(TextLoginFirst)

\* C4: /login with a session that is not logged_in stores exactly
\* awaiting_phone_no (no token, no installation id) and asks for the phone
\* number; with a logged_in session it replies "already logged in" and
\* writes nothing.
C4_LoginCommand ==
    \A r \in Slots :
        (Returned(r) /\ h[r].text = CmdLogin) =>
            IF h[r].kvValue.status = "logged_in"
            THEN /\ h[r].resp.text = Lit(TextAlreadyLoggedIn)
                 /\ h[r].writes = <<>>
                 /\ kv[h[r].chat] = h[r].kvValue
            ELSE /\ kv[h[r].chat] = AwaitingPhoneNo
                 /\ h[r].resp.text = Lit(TextEnterPhoneNo)

\* C4 witness: /login during the country-code step has discarded the
\* captured installation id
C4_Witness ==
    /\ Returned(1) /\ h[1].text = CmdLogin
    /\ h[1].kvValue.status = "awaiting_country_code"
    /\ kv[h[1].chat] = AwaitingPhoneNo

\* C5: /installation_id with a session that is not logged_in stores
\* awaiting_installation_id; with a logged_in session it replies "already
\* logged in" and writes nothing.
C5_InstallationIdCommand ==
    \A r \in Slots :
        (Returned(r) /\ h[r].text = CmdInstallationId) =>
            IF h[r].kvValue.status = "logged_in"
            THEN /\ h[r].resp.text = Lit(TextAlreadyLoggedInId)
                 /\ h[r].writes = <<>>
                 /\ kv[h[r].chat] = h[r].kvValue
            ELSE /\ kv[h[r].chat] = AwaitingInstallationId
                 /\ h[r].resp.text = Lit(TextEnterInstallationId)

\* C5 witness: /installation_id during the OTP step
C5_Witness ==
    /\ Returned(1) /\ h[1].text = CmdInstallationId
    /\ h[1].kvValue.status = "awaiting_otp"
    /\ kv[h[1].chat] = AwaitingInstallationId

\* the handler of slot r called login and the provider answered
LoginAnswered(r) ==
    /\ h[r].calls # <<>> /\ h[r].calls[1].op = "login"
    /\ h[r].presp # NoPresp

\* the handler of slot r called verifyOtp and the provider answered
VerifyAnswered(r) ==
    /\ h[r].calls # <<>> /\ h[r].calls[1].op = "verifyOtp"
    /\ h[r].presp # NoPresp

\* C6 as stated: with awaiting_phone_no read, every text that does not
\* start with + leaves awaiting_phone_no stored and gets the format-error
\* reply, without a login call.  (/logout, /installation_id, /start, ... do
\* not start with + either.)
C6_Original ==
    \A r \in Slots :
        (/\ Returned(r)
         /\ h[r].kvValue.status = "awaiting_phone_no"
         /\ ~StartsWith(h[r].text, "+")) =>
            /\ kv[h[r].chat] = AwaitingPhoneNo
            /\ h[r].resp.text = Lit(TextPhoneFormat)
            /\ h[r].calls = <<>>

\* C6 amended: with awaiting_phone_no read, every text that starts neither
\* with / nor with + leaves awaiting_phone_no stored, writes nothing, gets
\* the format-error reply and makes no provider call.
C6_PhoneFormatError ==
    \A r \in Slots :
        (/\ h[r].pc \in {"login", "kv_write", "kv_done", "thrown", "done"}
         /\ h[r].kvValue.status = "awaiting_phone_no"
         /\ ~StartsWith(h[r].text, "/")
         /\ ~StartsWith(h[r].text, "+")) =>
            /\ Returned(r)
            /\ kv[h[r].chat] = AwaitingPhoneNo
            /\ h[r].writes = <<>>
            /\ h[r].resp.text = Lit(TextPhoneFormat)
            /\ h[r].calls = <<>>

\* C6 witness: "abc" sent as the phone number
C6_Witness ==
    /\ Returned(1) /\ h[1].text = <<"a", "b", "c">>
    /\ h[1].kvValue.status = "awaiting_phone_no"
    /\ h[1].resp.text = Lit(TextPhoneFormat)

\* C7: (a) when login answered a text starting with + with status 1, status
\* 9 or message "Sent", and not status 5 or 6, the handler that returns has
\* stored awaiting_otp with that text as phoneNumber and the whole response
\* as loginResponse, and asked for the OTP; (b) a verifyOtp call in flight
\* carries the phoneNumber and loginResponse stored for the chat and the
\* message text as OTP.
C7_LoginAcceptedStoresToken ==
    \A r \in Slots :
        /\ (/\ Returned(r) /\ LoginAnswered(r)
            /\ h[r].kvValue.status = "awaiting_phone_no"
            /\ StartsWith(h[r].text, "+")
            /\ (h[r].presp.status \in {1, 9} \/ h[r].presp.message = MsgSent)
            /\ h[r].presp.status \notin {5, 6}) =>
               /\ kv[h[r].chat] =
                    [status |-> "awaiting_otp", phoneNumber |-> h[r].text,
                     loginResponse |-> h[r].presp]
               /\ h[r].calls = << [op |-> "login", phoneNumber |-> h[r].text] >>
               /\ h[r].resp.text = Lit(TextEnterOtp)
        /\ h[r].pc = "verify" =>
               /\ kv[h[r].chat].status = "awaiting_otp"
               /\ h[r].calls =
                    << [op |-> "verifyOtp",
                        phoneNumber |-> kv[h[r].chat].phoneNumber,
                        loginResponse |-> kv[h[r].chat].loginResponse,
                        otp |-> h[r].text] >>
               /\ StartsWith(kv[h[r].chat].phoneNumber, "+")

\* C7 witness: a verifyOtp call in flight with the token of a login that
\* was accepted by its message "Sent" alone
C7_Witness ==
    /\ h[1].pc = "verify"
    /\ h[1].calls[1].loginResponse = LR(2, MsgSent, CcIN, "r2")
    /\ h[1].calls[1].phoneNumber = <<"+", "1">>
    /\ h[1].calls[1].otp = <<"a", "b", "c">>

\* C8: when login answered with status 5 or 6, or with neither status 1,
\* status 9 nor message "Sent", nothing is written and awaiting_phone_no
\* stays stored; status 5 or 6 gets the rate-limit reply whatever the
\* message.
C8_LoginRefusedKeepsState ==
    \A r \in Slots :
        (/\ LoginAnswered(r)
         /\ \/ h[r].presp.status \in {5, 6}
            \/ ~(h[r].presp.status \in {1, 9} \/ h[r].presp.message = MsgSent)) =>
            /\ Returned(r)
            /\ h[r].writes = <<>>
            /\ kv[h[r].chat] = AwaitingPhoneNo
            /\ h[r].resp.text =
                 IF h[r].presp.status \in {5, 6}
                 THEN Lit(TextRateLimit)
                 ELSE Tpl(TextVerbatim, h[r].presp.message)

\* C8 witness: status 5 with message "Sent" got the rate-limit reply
C8_Witness ==
    /\ Returned(1) /\ LoginAnswered(1)
    /\ h[1].presp = LR(5, MsgSent, CcIN, "r1")
    /\ kv[h[1].chat] = AwaitingPhoneNo
    /\ h[1].resp.text = Lit(TextRateLimit)

\* a verification that succeeded: not suspended, status neither 11 nor 7,
\* an installation id present
VerifySucceeded(otpResponse) ==
    /\ ~otpResponse.suspended
    /\ otpResponse.status \notin {11, 7}
    /\ otpResponse.installationId # <<>>

\* C9: when verifyOtp succeeded, the handler that returns has stored
\* logged_in with the installationId of the response and the
\* parsedCountryCode of the login response it read, and replied success.
C9_VerifiedLogsIn ==
    \A r \in Slots :
        (Returned(r) /\ VerifyAnswered(r) /\ VerifySucceeded(h[r].presp)) =>
            /\ h[r].kvValue.status = "awaiting_otp"
            /\ kv[h[r].chat] =
                 [status |-> "logged_in",
                  installationId |-> h[r].presp.installationId,
                  countryCode |-> h[r].kvValue.loginResponse.parsedCountryCode]
            /\ h[r].resp.text = Lit(TextLoggedIn)
            /\ h[r].events = << "/login" >>

\* C9 witness: logged in with the id i2 of the response and the country
\* code US of the stored token
C9_Witness ==
    /\ Returned(1) /\ VerifyAnswered(1)
    /\ h[1].presp = OR(FALSE, 2, Inst2, MsgOther)
    /\ kv[h[1].chat] = LoggedIn(Inst2, CcUS)

\* C10: when verifyOtp reported suspension, status 11, status 7 or no
\* installation id, nothing is written and the awaiting_otp session read
\* (same phone number, same token) stays stored; the reply follows the
\* precedence suspended, 11, 7, missing id.
C10_VerifyFailedKeepsState ==
    \A r \in Slots :
        (VerifyAnswered(r) /\ ~VerifySucceeded(h[r].presp)) =>
            /\ Returned(r)
            /\ h[r].writes = <<>>
            /\ h[r].kvValue.status = "awaiting_otp"
            /\ kv[h[r].chat] = h[r].kvValue
            /\ h[r].resp.text =
                 IF h[r].presp.suspended THEN Lit(TextSuspended)
                 ELSE IF h[r].presp.status = 11 THEN Lit(TextInvalidOtp)
                 ELSE IF h[r].presp.status = 7 THEN Lit(TextRetriesLimit)
                 ELSE IF h[r].presp.message # <<>>
                      THEN Tpl(TextVerbatim, h[r].presp.message)
                      ELSE Lit(TextUnknownError)

\* C10 witness: status 7 with an installation id in the response: the retry
\* limit wins and the token stays
C10_Witness ==
    /\ Returned(1) /\ VerifyAnswered(1)
    /\ h[1].presp = OR(FALSE, 7, Inst2, <<>>)
    /\ kv[h[1].chat] = h[1].kvValue
    /\ h[1].resp.text = Lit(TextRetriesLimit)

\* C11: from awaiting_country_code, a text that is no command and whose
\* length is not exactly 2 leaves the stored session awaiting_country_code,
\* with no write, and is answered with the country-code format error; only a
\* text of two characters stores logged_in.  src/index.ts stores logged_in
\* for a text of any length, so this statement of the claim is violated.
C11_CountryCodeLength ==
    \A r \in Slots :
        (Returned(r) /\ h[r].kvValue.status = "awaiting_country_code"
           /\ ~StartsWith(h[r].text, "/")) =>
            IF Len(h[r].text) = 2
            THEN kv[h[r].chat] = LoggedIn(h[r].kvValue.installationId, h[r].text)
            ELSE /\ h[r].writes = <<>>
                 /\ kv[h[r].chat] = h[r].kvValue
                 /\ h[r].resp.text = Lit(TextInvalidCountryCode)

\* C12: the three deliveries /installation_id, text T, text C of a chat that
\* is not logged in, T and C without a leading /: the handler that returns
\* from /installation_id leaves awaiting_installation_id; the one that then
\* reads awaiting_installation_id and gets T leaves awaiting_country_code
\* holding T verbatim; the one that then reads awaiting_country_code and
\* gets C leaves logged_in with that installationId and countryCode C; and
\* none of the three has called the provider.
C12_InstallationIdFlow ==
    \A r \in Slots :
        /\ (Returned(r) /\ h[r].text = CmdInstallationId
              /\ h[r].kvValue.status # "logged_in") =>
               /\ kv[h[r].chat] = AwaitingInstallationId
               /\ h[r].calls = <<>>
        /\ (Returned(r) /\ h[r].kvValue = AwaitingInstallationId
              /\ ~StartsWith(h[r].text, "/")) =>
               /\ kv[h[r].chat] = AwaitingCountryCode(h[r].text)
               /\ h[r].calls = <<>>
        /\ (Returned(r) /\ h[r].kvValue.status = "awaiting_country_code"
              /\ ~StartsWith(h[r].text, "/")) =>
               /\ kv[h[r].chat] = LoggedIn(h[r].kvValue.installationId, h[r].text)
               /\ h[r].writes = << [op |-> "set",
                                    value |-> LoggedIn(h[r].kvValue.installationId, h[r].text)] >>
               /\ h[r].calls = <<>>
               /\ h[r].resp.text = Lit(TextLoggedIn)

\* C12 witness: the last delivery of the sequence has returned, with T = abc
\* and C = +1
C12_Witness ==
    /\ Returned(1)
    /\ h[1].kvValue = AwaitingCountryCode(<<"a", "b", "c">>)
    /\ h[1].text = <<"+", "1">>
    /\ kv[h[1].chat] = LoggedIn(<<"a", "b", "c">>, <<"+", "1">>)
    /\ h[1].calls = <<>>

\* C13: a handler of /start or /info never holds a kv.set or kv.delete, a
\* pending one included, nor a provider call, whatever the session it read;
\* when it returns, the stored session is the one it found; and the reply to
\* /info carries the installation id when the session read is logged_in and
\* is the logged-out text for every other session, awaiting_country_code
\* with its captured id included.
C13_StartInfoReadOnly ==
    \A r \in Slots :
        (h[r].text \in {CmdStart, CmdInfo}) =>
            /\ h[r].writes = <<>>
            /\ h[r].pending = NoWrite
            /\ h[r].calls = <<>>
            /\ h[r].pc \notin {"kv_write", "kv_done", "login", "verify", "search"}
            /\ Returned(r) =>
                   /\ ReadSession(kv[h[r].chat]) = h[r].kvValue
                   /\ h[r].text = CmdStart => h[r].resp.text = Lit(TextStart)
                   /\ h[r].text = CmdInfo =>
                          h[r].resp.text =
                              IF h[r].kvValue.status = "logged_in"
                              THEN Tpl(TextInfoLoggedIn, h[r].kvValue.installationId)
                              ELSE Lit(TextInfoLoggedOut)

\* C13 witness: /info has returned the logged-out text for a session that
\* holds a captured installation id
C13_Witness ==
    /\ Returned(1) /\ h[1].text = CmdInfo
    /\ h[1].kvValue = AwaitingCountryCode(<<"a", "b", "c">>)
    /\ h[1].resp.text = Lit(TextInfoLoggedOut)
    /\ kv[h[1].chat] = h[1].kvValue

\* the handler of slot r has called search
Searched(r) == h[r].calls # <<>> /\ h[r].calls[1].op = "search"

\* the handler of slot r has got a result from search
SearchAnswered(r) == Searched(r) /\ h[r].presp # NoPresp

\* C14: a handler that has called search never holds a kv.set or kv.delete,
\* and the stored session stays the logged_in session it read, whether the
\* search gives a name, an account error (40101, 42601), another error or
\* rejects; when the result is a name the reply is that name and the event
\* /search is emitted; when it is an error with status 40101 or 42601 the
\* handler itself replies with the account-error text that points to
\* /login, and emits no event.
C14_SearchKeepsSession ==
    \A r \in Slots :
        Searched(r) =>
            /\ h[r].writes = <<>>
            /\ h[r].pending = NoWrite
            /\ h[r].pc \notin {"kv_write", "kv_done"}
            /\ h[r].kvValue.status = "logged_in"
            /\ kv[h[r].chat] = h[r].kvValue
            /\ (h[r].pc = "done" /\ SearchAnswered(r) /\ ~h[r].presp.isError) =>
                   /\ h[r].via = "handler"
                   /\ h[r].resp.text = Tpl(TextVerbatim, h[r].presp.name)
                   /\ h[r].events = << "/search" >>
            /\ (h[r].pc = "done" /\ SearchAnswered(r) /\ h[r].presp.isError
                  /\ h[r].presp.error.status \in {40101, 42601}) =>
                   /\ h[r].via = "handler"
                   /\ h[r].resp.text = Tpl(TextAccountError, h[r].presp.error.dataMessage)
                   /\ h[r].resp.parse_mode = "MarkdownV2"
                   /\ h[r].events = <<>>

\* C14 witness: a search answered with status 42601 has been replied to
\* with the account-error text and the session is still stored
C14_Witness ==
    /\ Returned(1) /\ SearchAnswered(1)
    /\ h[1].presp.isError /\ h[1].presp.error.status = 42601
    /\ h[1].resp.text = Tpl(TextAccountError, <<>>)
    /\ kv[h[1].chat] = h[1].kvValue
    /\ h[1].kvValue.status = "logged_in"

\* the handler of slot r has got from search an error that is no account
\* error
SearchFailedOtherwise(r) ==
    /\ SearchAnswered(r)
    /\ h[r].presp.isError
    /\ ~(h[r].presp.error.hasResponse /\ h[r].presp.error.status \in {40101, 42601})

\* C15 as the specification states it: a search error with another status is
\* raised to onError, which replies with the generic "Internal server error
\* ... reported" message and reports the error.  The code answers an Axios
\* error that carries a response with the provider's message instead.
C15_Original ==
    \A r \in Slots :
        (SearchFailedOtherwise(r) /\ h[r].pc = "done") =>
            /\ h[r].via = "onError"
            /\ h[r].resp.text = Tpl(TextInternalError, h[r].presp.error.message)
            /\ h[r].reported = << h[r].presp.error >>

\* C15: a search error whose status is neither 40101 nor 42601 is not
\* answered by the handler: it is thrown, no event is emitted, and onError
\* passes it to reportError and replies, for an Axios error that carries a
\* response, with the message of that response, or with "Try again with a
\* valid number." when the response has none, and with the generic
\* "Internal server error ... reported" message for any other error.
C15_SearchErrorRaised ==
    \A r \in Slots :
        SearchFailedOtherwise(r) =>
            /\ h[r].pc \in {"thrown", "done"}
            /\ h[r].error = h[r].presp.error
            /\ h[r].events = <<>>
            /\ h[r].pc = "done" =>
                   /\ h[r].via = "onError"
                   /\ h[r].reported = << h[r].presp.error >>
                   /\ h[r].resp.kind = "sendMessage"
                   /\ h[r].resp.text =
                          IF h[r].error.name = "AxiosError" /\ h[r].error.hasResponse
                          THEN IF h[r].error.dataMessage # <<>>
                               THEN Tpl(TextVerbatim, h[r].error.dataMessage)
                               ELSE Lit(TextTryValidNumber)
                          ELSE Tpl(TextInternalError, h[r].error.message)

\* C15 witness: onError has answered a search error of status 429 with the
\* provider's message
C15_Witness ==
    /\ h[1].pc = "done" /\ h[1].via = "onError"
    /\ SearchFailedOtherwise(1)
    /\ h[1].presp.error.status = 429
    /\ h[1].resp.text = Tpl(TextVerbatim, MsgOther)
    /\ h[1].reported = << h[1].presp.error >>

\* C16: whenever onError has answered a fault of a delivery (a rejected
\* provider call, a rejected kv.get, kv.set or kv.delete, the kv.delete of
\* a kicked chat included), its response is a sendMessage reply whose
\* chat_id is defined.  onError takes the chat id from tgChatId, which the
\* kicked path never sets, so this statement of the claim is violated.
C16_FaultReplyHasChatId ==
    \A r \in Slots :
        (h[r].pc = "done" /\ h[r].via = "onError") =>
            /\ h[r].resp.kind = "sendMessage"
            /\ h[r].resp.chat_id # NoChat

\* C17: a handler of a message with text holds at most one kv.set or
\* kv.delete, the pending one counted, and at most one provider call, and
\* when it is done its one response is a sendMessage reply, from the handler
\* or from onError.
C17_OneReplyOneWriteOneCall ==
    \A r \in Slots :
        (h[r].text # <<>>) =>
            /\ Len(h[r].writes) + (IF h[r].pc = "kv_write" THEN 1 ELSE 0) <= 1
            /\ Len(h[r].calls) <= 1
            /\ h[r].pc = "done" =>
                   /\ h[r].resp.kind = "sendMessage"
                   /\ h[r].resp.status = 200
            /\ h[r].pc # "done" => h[r].resp = NoResponse

\* C17 witness: a handler is done with one provider call and one write,
\* the most a delivery makes
C17_Witness ==
    /\ h[1].pc = "done" /\ h[1].text # <<>>
    /\ Len(h[1].calls) = 1 /\ h[1].calls[1].op = "verifyOtp"
    /\ Len(h[1].writes) = 1
    /\ h[1].resp.kind = "sendMessage"

\* C18: when handlers of messages of two chats interleave, the reply of a
\* handler carries the chat id of its own message.  sendTgMessage reads the
\* module variable tgChatId at reply time, after the awaits of the handler,
\* so a message of another chat received in between changes the target and
\* this statement of the claim is violated.
C18_ReplyToOwnChat ==
    \A r \in Slots :
        (h[r].pc = "done" /\ h[r].text # <<>>) =>
            /\ h[r].resp.kind = "sendMessage"
            /\ h[r].resp.chat_id = h[r].chat

\* C19: a chat with no stored session is handled as logged_out.  No stored
\* value has status logged_out, so a missing value is the only logged_out
\* session there is; the handler that finds no value works on the session
\* logged_out, and every input it gets has the outcome of the logged_out
\* state: /start replies the greeting and emits the event /start, which it
\* emits for no stored session; /info replies the logged-out text; /login
\* stores awaiting_phone_no; /installation_id stores
\* awaiting_installation_id; /logout deletes and confirms; any other text
\* gets "Please /login first ..." with no write; and no input leads to a
\* provider call.
C19_AbsentIsLoggedOut ==
    /\ \A c \in Chats : kv[c].status # "logged_out"
    /\ \A r \in Slots :
           /\ (h[r].pc = "dispatch" /\ kv[h[r].key] = Null) => h[r].kvValue = LoggedOut
           /\ (h[r].pc \notin {"idle", "open_kv", "kv_get"} /\ h[r].text # <<>>
                 /\ h[r].error # KvError) =>
                  h[r].kvValue.status # "null"
           /\ (Returned(r) /\ h[r].text = CmdStart) =>
                  (h[r].events = << "/start" >>) = (kv[h[r].chat] = Null)
           /\ (Returned(r) /\ h[r].kvValue = LoggedOut) =>
                  /\ h[r].calls = <<>>
                  /\ h[r].text = CmdStart =>
                         /\ h[r].resp.text = Lit(TextStart)
                         /\ h[r].writes = <<>>
                  /\ h[r].text = CmdInfo =>
                         /\ h[r].resp.text = Lit(TextInfoLoggedOut)
                         /\ h[r].writes = <<>> /\ h[r].events = <<>>
                  /\ h[r].text = CmdLogin =>
                         /\ kv[h[r].chat] = AwaitingPhoneNo
                         /\ h[r].resp.text = Lit(TextEnterPhoneNo)
                  /\ h[r].text = CmdInstallationId =>
                         /\ kv[h[r].chat] = AwaitingInstallationId
                         /\ h[r].resp.text = Lit(TextEnterInstallationId)
                  /\ h[r].text = CmdLogout =>
                         /\ kv[h[r].chat] = Null
                         /\ h[r].resp.text = Lit(TextLoggedOut)
                         /\ h[r].events = << "/logout" >>
                  /\ h[r].text \notin Commands =>
                         /\ h[r].resp.text = Lit(TextLoginFirst)
                         /\ h[r].writes = <<>> /\ h[r].events = <<>>
                         /\ kv[h[r].chat] = Null

\* C19 witness: /start has returned for a chat with no stored session, with
\* the event of the logged_out state
C19_Witness ==
    /\ Returned(1) /\ h[1].text = CmdStart
    /\ kv[h[1].chat] = Null
    /\ h[1].kvValue = LoggedOut
    /\ h[1].events = << "/start" >>

\* the request q is an update whose my_chat_member has the new status kicked
Kicked(q) ==
    /\ q.method = "POST" /\ q.parses
    /\ q.my_chat_member.present /\ q.my_chat_member.status = "kicked"

\* slot r handles a kicked update
KickedSlot(r) == h[r].pc # "idle" /\ h[r].chat # NoChat /\ h[r].text = <<>>

\* what holds of a handler of a kicked update in every state
C20_KickedState ==
    \A r \in Slots :
        KickedSlot(r) =>
            /\ h[r].pc \in {"kv_write", "kv_done", "thrown", "done"}
            /\ h[r].key = h[r].chat
            /\ h[r].calls = <<>>
            /\ h[r].kvValue = Null
            /\ (h[r].pc = "done" /\ h[r].via = "handler") =>
                   /\ kv[h[r].chat] = Null
                   /\ h[r].writes = << [op |-> "delete", value |-> Null] >>
                   /\ h[r].events = << "/stop" >>
                   /\ h[r].resp = EmptyResponse

\* what every reception of a kicked update does, the updates that also
\* carry a message included
KickedRequests == { q \in Requests : Kicked(q) }

C20_KickedStep ==
    \A r \in Slots :
        (h[r].pc = "idle" /\ h'[r].pc # "idle") =>
            \A q \in KickedRequests :
                Receive(r, q) =>
                    /\ h'[r].pc = "kv_write"
                    /\ h'[r].pending = [op |-> "delete", value |-> Null]
                    /\ h'[r].key = q.my_chat_member.chat
                    /\ h'[r].text = <<>>
                    /\ tgChatId' = tgChatId

\* C20: an update whose my_chat_member has the new status kicked goes to
\* kv.delete of that chat's key without reading the session, so whatever is
\* stored; the handler that returns has deleted the session, emitted the
\* event /stop and returned the empty response, no sendMessage reply; and a
\* message carried by the same update is not handled: no text is taken, the
\* chat id of replies is not assigned, nothing but the delete is done.
C20_KickedDeletes == []C20_KickedState /\ [][C20_KickedStep]_vars

\* C20 witness: the handler of a kicked update has returned the empty
\* response after the delete
C20_Witness ==
    /\ KickedSlot(1) /\ h[1].pc = "done" /\ h[1].via = "handler"
    /\ h[1].resp = EmptyResponse
    /\ h[1].events = << "/stop" >>
    /\ h[1].writes = << [op |-> "delete", value |-> Null] >>
    /\ kv[h[1].chat] = Null /\ \E c \in Chats : kv[c] # Null

\* the request q carries a message with a text that is not empty
HasText(q) ==
    q.parses /\ q.message.present /\ q.message.hasText /\ q.message.text # <<>>

\* the requests that are answered at once: another method than POST, or a
\* POST with neither a text message nor a kicked update, the body that does
\* not parse included
GuardedRequests == { q \in Requests : q.method # "POST" \/ (~Kicked(q) /\ ~HasText(q)) }

\* slot r holds a request that was answered at once
GuardedSlot(r) == h[r].pc # "idle" /\ h[r].chat = NoChat

\* what holds of such a request in every state: it is done, with an empty
\* response, nothing read, nothing written, nothing called
C21_GuardedState ==
    \A r \in Slots :
        GuardedSlot(r) =>
            /\ h[r].pc = "done" /\ h[r].via = "handler"
            /\ h[r].resp \in {NotFoundResponse, EmptyResponse}
            /\ h[r].kvValue = Null /\ h[r].key = NoChat
            /\ h[r].writes = <<>> /\ h[r].pending = NoWrite
            /\ h[r].calls = <<>> /\ h[r].events = <<>> /\ h[r].reported = <<>>

\* what the reception of such a request does
C21_GuardedStep ==
    \A r \in Slots :
        (h[r].pc = "idle" /\ h'[r].pc # "idle") =>
            \A q \in GuardedRequests :
                Receive(r, q) =>
                    /\ h'[r].pc = "done"
                    /\ h'[r].chat = NoChat
                    /\ h'[r].resp = IF q.method # "POST" THEN NotFoundResponse
                                    ELSE EmptyResponse
                    /\ kv' = kv
                    /\ tgChatId' = tgChatId

\* C21: a request with another method than POST is answered 404, and a
\* POST that has neither a message with text nor a my_chat_member of status
\* kicked, the body that does not parse included, is answered with the
\* empty 200 response; both are answered at reception, and the handler has
\* read no session, written none and called no provider.
C21_GuardsTouchNothing == []C21_GuardedState /\ [][C21_GuardedStep]_vars

\* C21 witness: a request has been answered with the empty 200 response at
\* reception while a session is stored
C21_Witness ==
    /\ GuardedSlot(1) /\ h[1].pc = "done"
    /\ h[1].resp = EmptyResponse
    /\ h[1].kvValue = Null /\ h[1].writes = <<>>
    /\ \E c \in Chats : kv[c].status = "logged_in"

TwinSame ==
    /\ h[1].pc = "done" /\ h[2].pc = "done"
    /\ h[1].text = h[2].text
    /\ h[1].kvValue = h[2].kvValue
    /\ h[1].presp = h[2].presp
    /\ h[1].error = h[2].error

\* the two deliveries have the same reply and left the same session
SameReplyAndSession ==
    /\ h[1].resp.kind = h[2].resp.kind
    /\ h[1].resp.status = h[2].resp.status
    /\ h[1].resp.text = h[2].resp.text
    /\ h[1].resp.parse_mode = h[2].resp.parse_mode
    /\ h[1].via = h[2].via
    /\ kv[1] = kv[2]

\* there is a fetch to this sink among the fetches
SentTo(fetches, sink) == \E i \in 1..Len(fetches) : fetches[i].sink = sink

\* what holds of the telemetry in every state: deliveries with the same
\* inputs have the same reply, session, provider calls and reportEvent
\* calls, whatever the environment of each and whatever became of their
\* fetches; and the delivery handled under the present environment has sent
\* no fetch to a sink that is not configured and has met no fault of the
\* telemetry
C23_TelemetryState ==
    /\ TwinSame =>
           /\ SameReplyAndSession
           /\ h[1].calls = h[2].calls
           /\ h[1].events = h[2].events
           /\ h[1].writes = h[2].writes
    /\ h[2].pc # "idle" =>
           /\ ~(env.EVENT_PING_URL /\ env.EVENT_PING_PROJECT_ID) =>
                  ~SentTo(h[2].fetches, "event")
           /\ ~env.TG_REPORT_CHANNEL_ID => ~SentTo(h[2].fetches, "report")
           /\ h[2].error # FetchError
           /\ Len(h[2].fetches) <= Len(h[2].events) + Len(h[2].reported)

\* what a step does to a delivery that is done, the steps in which its
\* fetches settle: its reply, its writes and calls and the session it left
\* stay as they are
C23_TelemetryStep ==
    \A r \in Slots :
        (h[r].pc = "done" /\ h'[r].pc = "done") =>
            /\ h'[r].resp = h[r].resp
            /\ h'[r].via = h[r].via
            /\ h'[r].writes = h[r].writes
            /\ h'[r].calls = h[r].calls
            /\ h'[r].events = h[r].events
            /\ h[r].key # NoChat => kv'[h[r].key] = kv[h[r].key]

\* C23: the telemetry has no part in the outcome: for the same stored
\* session, text and answer of the provider the reply and the session left
\* are the same whether the sinks are configured or not and whether their
\* fetches are fulfilled or rejected; a sink that is not configured gets no
\* fetch and raises no fault.
C23_TelemetryNoInfluence == []C23_TelemetryState /\ [][C23_TelemetryStep]_vars

\* C23 witness: /logout was handled twice from the same session, once with
\* every sink configured, the event fetch rejected and reported, once with
\* nothing sent, and the reply and the session are the same
C23_Witness ==
    /\ TwinSame /\ SameReplyAndSession
    /\ h[1].text = CmdLogout
    /\ h[1].fetches = << [sink |-> "event", state |-> "failed"],
                         [sink |-> "report", state |-> "ok"] >>
    /\ h[2].fetches = <<>>
    /\ h[2].events = << "/logout" >>
    /\ env = Env(FALSE, FALSE, FALSE)

C26_ReadThenWrite ==
    \A r \in Slots :
        /\ Len(h[r].writes) + (IF h[r].pc = "kv_write" THEN 1 ELSE 0) <= 1
        /\ h[r].pc \in {"open_kv", "kv_get", "dispatch"} =>
               h[r].writes = <<>> /\ h[r].pending = NoWrite
        /\ h[r].pc \in {"open_kv", "kv_get"} => h[r].kvValue = Null

\* the write of a handler is performed whatever the key holds by then: the
\* value computed from the handler's own read replaces it
C26_WriteUnchecked ==
    \A r \in Slots :
        (h[r].pc = "kv_write" /\ h'[r].pc = "kv_done") =>
            kv'[h[r].key] = IF h[r].pending.op = "set" THEN h[r].pending.value ELSE Null

\* C26: handlers of two messages of one chat are not atomic on the stored
\* session: each reads once and later writes at most once, and the write
\* is not conditioned on the session still being the one read; so the run
\* of the witness exists, in which the handler of an OTP writes logged_in
\* after a /logout deleted the session it had read, and the session left,
\* logged_in, is the outcome of neither order of the two handlers one after
\* the other (both orders leave no session).
C26_NotAtomic == []C26_ReadThenWrite /\ [][C26_WriteUnchecked]_vars

\* C26 witness: both handlers of chat c are done; the OTP handler read
\* awaiting_otp and wrote logged_in, the /logout handler deleted; the delete
\* came first, since logged_in is what is stored
C26_Witness ==
    \E c \in Chats :
        /\ h[1].pc = "done" /\ h[2].pc = "done"
        /\ h[1].chat = c /\ h[1].key = c /\ h[2].chat = c /\ h[2].key = c
        /\ h[1].text = <<"a", "b", "c">>
        /\ h[1].kvValue.status = "awaiting_otp"
        /\ h[1].writes = << [op |-> "set", value |-> LoggedIn(Inst1, CcIN)] >>
        /\ h[2].text = CmdLogout
        /\ h[2].writes = << [op |-> "delete", value |-> Null] >>
        /\ h[2].resp.text = Lit(TextLoggedOut)
        /\ kv[c] = LoggedIn(Inst1, CcIN)

\* the status a reply announces: the stored status its kv.set leaves, or
\* "null" for the kv.delete of /logout; "" for a reply announcing none
Announced(lit) ==
    CASE lit = TextEnterPhoneNo -> "awaiting_phone_no"
      [] lit = TextEnterOtp -> "awaiting_otp"
      [] lit = TextEnterInstallationId -> "awaiting_installation_id"
      [] lit = TextEnterCountryCode -> "awaiting_country_code"
      [] lit = TextLoggedIn -> "logged_in"
      [] lit = TextLoggedOut -> "null"
      [] OTHER -> ""

\* C27: within the handling of one message the kv.set or kv.delete has
\* completed before the reply is emitted: nothing is answered while the
\* write is awaited; a reply announcing a new state (phone prompt, OTP
\* prompt, installation-id and country-code prompts, login success, logout
\* confirmation) comes from the handler with its one write performed and
\* that state stored; and a handler whose storage operation rejected
\* answers through onError with the internal-error message, having written
\* nothing.
C27_WriteBeforeReply ==
    \A r \in Slots :
        /\ h[r].pc # "done" => h[r].resp = NoResponse
        /\ (h[r].pc = "done" /\ Announced(h[r].resp.text.lit) # "") =>
               /\ h[r].via = "handler" /\ h[r].error = NoError
               /\ Len(h[r].writes) = 1
               /\ kv[h[r].key] = Stored(kv, h[r].key, h[r].writes[1])[h[r].key]
               /\ kv[h[r].key].status = Announced(h[r].resp.text.lit)
        /\ (h[r].pc = "done" /\ h[r].error = KvError) =>
               /\ h[r].via = "onError"
               /\ h[r].resp.text.lit = TextInternalError
               /\ h[r].writes = <<>>

\* C27 witness: verifyOtp succeeded for the OTP of a chat awaiting it, the
\* kv.set of the logged-in session rejected, and the chat is answered by
\* onError while awaiting_otp is still stored
C27_Witness ==
    /\ h[1].pc = "done" /\ h[1].text = <<"a", "b", "c">>
    /\ h[1].kvValue.status = "awaiting_otp"
    /\ Len(h[1].calls) = 1
    /\ h[1].presp = OR(FALSE, 2, Inst1, <<>>)
    /\ h[1].error = KvError /\ h[1].via = "onError"
    /\ h[1].resp.text.lit = TextInternalError
    /\ kv[h[1].key].status = "awaiting_otp"

\* what a step may do to a logged-in session when deliveries are handled
\* one after the other: leave it as it is, or delete it by the kv.delete of
\* a /logout message of the chat or of a kicked update for the chat
C28_LoggedInStep ==
    \A c \in Chats :
        (kv[c].status = "logged_in" /\ kv'[c] # kv[c]) =>
            /\ kv'[c] = Null
            /\ \E r \in Slots :
                   /\ h[r].pc = "kv_write" /\ h[r].key = c
                   /\ h[r].pending = [op |-> "delete", value |-> Null]
                   /\ \/ h[r].text = CmdLogout /\ h[r].chat = c
                      \/ KickedSlot(r)

\* C28: under sequential handling a logged-in session keeps its
\* installationId and countryCode and stays logged_in through every message,
\* until the kv.delete of a /logout message or of a kicked update.
C28_LoggedInStable == [][C28_LoggedInStep]_vars

\* C28 witness: a logged-in chat sent /installation_id, was told it is
\* already logged in, and its session is the one read
C28_Witness ==
    /\ h[1].pc = "done" /\ h[1].via = "handler"
    /\ h[1].text = CmdInstallationId
    /\ h[1].kvValue.status = "logged_in"
    /\ h[1].resp.text = Lit(TextAlreadyLoggedInId)
    /\ h[1].writes = <<>>
    /\ kv[h[1].chat] = h[1].kvValue

\* the handler that performs the write of a step on the key of chat c
Writer(r, c) == h[r].pc = "kv_write" /\ h[r].key = c /\ h'[r].pc = "kv_done"

\* what a step may do to the session of a chat when deliveries are handled
\* one after the other: awaiting_otp is stored over awaiting_phone_no only,
\* by a handler whose login call was accepted; awaiting_country_code over
\* awaiting_installation_id only; logged_in over awaiting_otp by a handler
\* whose verifyOtp call succeeded, or over awaiting_country_code; and over
\* no session, only awaiting_phone_no or awaiting_installation_id
C29_GraphStep ==
    \A c \in Chats :
        kv'[c] # kv[c] =>
            \E r \in Slots :
                /\ Writer(r, c) /\ h[r].chat = c
                /\ kv'[c].status = "awaiting_otp" =>
                       /\ kv[c].status = "awaiting_phone_no"
                       /\ LoginAnswered(r) /\ LoginAccepted(h[r].presp)
                       /\ ~LoginRateLimited(h[r].presp)
                /\ kv'[c].status = "awaiting_country_code" =>
                       kv[c].status = "awaiting_installation_id"
                /\ kv'[c].status = "logged_in" =>
                       \/ /\ kv[c].status = "awaiting_otp"
                          /\ VerifyAnswered(r) /\ VerifySucceeded(h[r].presp)
                       \/ /\ kv[c].status = "awaiting_country_code"
                          /\ h[r].calls = <<>>
                /\ kv[c] = Null =>
                       kv'[c].status \in {"awaiting_phone_no", "awaiting_installation_id"}

\* C29: under sequential handling the session follows the transition graph
\* only: awaiting_otp only from awaiting_phone_no after an accepted login
\* call, awaiting_country_code only from awaiting_installation_id, logged_in
\* only from awaiting_otp after a successful verifyOtp or from
\* awaiting_country_code; no message takes an absent session to
\* awaiting_otp, awaiting_country_code or logged_in.
C29_TransitionGraph == [][C29_GraphStep]_vars

\* C29 witness: a chat awaiting its phone number was taken to awaiting_otp
\* by an accepted login, while another chat is logged in through the
\* installation-id flow
C29_Witness ==
    \E c, d \in Chats :
        /\ c # d
        /\ h[1].pc = "done" /\ h[1].chat = c
        /\ h[1].kvValue = AwaitingPhoneNo
        /\ LoginAnswered(1) /\ LoginAccepted(h[1].presp)
        /\ Len(h[1].writes) = 1
        /\ kv[c].status = "awaiting_otp" /\ kv[c] = h[1].writes[1].value
        /\ kv[d] = LoggedIn(<<"a", "b", "c">>, <<"+", "1">>)

====
